---- MODULE Spec2Model ----
(***************************************************************************)
(* A model of serdew (src/serdew.go): one (de)serialization context, the   *)
(* codecs built on Ctx.Raw, and passes of codec calls over typed values.   *)
(*                                                                         *)
(* Representation.                                                         *)
(*   - A byte is a number in 0..255.                                       *)
(*   - An integer of a w-byte Go type is a word: a sequence of w bytes,    *)
(*     word[j] holding bits 8(j-1)..8(j-1)+7 of the value.  Shifts, byte   *)
(*     truncation and OR are computed on words, so every w-bit pattern is  *)
(*     representable.  A float is the word of its bit pattern.             *)
(*   - A Go slice of bytes is a backing array (a sequence, its length the  *)
(*     capacity) and a length; the slice's content is the first len        *)
(*     elements of the backing array.                                      *)
(*   - An error is a string; "nil" is the nil error.                       *)
(***************************************************************************)
EXTENDS Integers, Sequences, FiniteSets, TLC

Byte == 0..255

NoErr == "nil"

\* src/serdew.go:46
errUnexpectedEnd == "unexpected end of buffer during deserialization"

(***************************************************************************)
(* Words                                                                   *)
(***************************************************************************)

\* n zero bytes: what make([]byte, ...) yields.
Zeros(n) == [j \in 1..n |-> 0]

RECURSIVE ShrInt(_, _)
\* Arithmetic shift of a mathematical integer by k bytes.
ShrInt(v, k) == IF k = 0 THEN v ELSE ShrInt(v \div 256, k - 1)

\* The w-byte two's-complement word of the integer n.
WordOf(n, w) == [j \in 1..w |-> ShrInt(n, j - 1) % 256]

RECURSIVE NatOf(_)
\* The unsigned value of a word.
NatOf(word) == IF word = <<>> THEN 0 ELSE word[1] + 256 * NatOf(Tail(word))

\* Counts of 2^24 and more stand for one count, Huge: larger than every buffer
\* of the model.
Huge == 16777216

\* The bytes of a word from index i on all equal b.
AllFrom(word, i, b) == \A j \in i..Len(word) : word[j] = b

\* int(word): the value of a word read as a signed (two's complement) or
\* unsigned integer; exact below Huge in magnitude.
IntOf(word, signed) ==
    IF signed /\ Len(word) > 0 /\ word[Len(word)] >= 128
    THEN IF AllFrom(word, 4, 255)
         THEN -(1 + NatOf([j \in 1..Len(word) |-> 255 - word[j]]))
         ELSE -Huge
    ELSE IF AllFrom(word, 4, 0) THEN NatOf(word) ELSE Huge

RECURSIVE BitOr(_, _)
\* a | b on bytes.
BitOr(a, b) ==
    IF a = 0 THEN b
    ELSE IF b = 0 THEN a
    ELSE (IF a % 2 = 1 \/ b % 2 = 1 THEN 1 ELSE 0) + 2 * BitOr(a \div 2, b \div 2)

\* i << 3
Shl3(i) == i * 8

\* word >> s for a shift count s that is a multiple of 8 and less than the
\* width: arithmetic for a signed type, logical for an unsigned one.
ShrWord(word, s, signed) ==
    LET w == Len(word)
        k == s \div 8
        pad == IF signed /\ word[w] >= 128 THEN 255 ELSE 0
    IN  [j \in 1..w |-> IF j + k <= w THEN word[j + k] ELSE pad]

\* word << s for a shift count s that is a multiple of 8.
ShlWord(word, s) ==
    LET k == s \div 8
    IN  [j \in 1..Len(word) |-> IF j - k >= 1 THEN word[j - k] ELSE 0]

\* a | b on words of one width.
OrWord(a, b) == [j \in 1..Len(a) |-> BitOr(a[j], b[j])]

\* byte(word): truncation to the low 8 bits.
ByteOfWord(word) == word[1]

\* T(b) for a byte b and a w-byte integer type T.
WordOfByte(b, w) == [j \in 1..w |-> IF j = 1 THEN b ELSE 0]

(***************************************************************************)
(* Types (gc on a 64-bit platform)                                         *)
(***************************************************************************)

NumberTypes ==
    {"int", "int8", "int16", "int32", "int64", "uint", "uint8", "uint16",
     "uint32", "uint64", "uintptr", "float32", "float64"}

\* unsafe.Sizeof
Sizeof(T) ==
    CASE T \in {"int8", "uint8", "Ser"} -> 1
      [] T \in {"int16", "uint16", "De"} -> 2
      [] T \in {"int32", "uint32", "float32"} -> 4
      [] T \in {"int", "int64", "uint", "uint64", "uintptr", "float64"} -> 8

\* unsafe.Alignof
Alignof(T) == Sizeof(T)

\* Whether >> on T is arithmetic.
IsSigned(T) == T \in {"int", "int8", "int16", "int32", "int64"}

sizeEq(T, U) == Sizeof(T) = Sizeof(U)

alignCompat(T, U) == Alignof(T) >= Alignof(U) /\ Alignof(T) % Alignof(U) = 0

canTransmute(T, U) == sizeEq(T, U) /\ alignCompat(T, U)

\* U(*value) in place of the pointer cast: the number converted, which for a
\* float is its integer part and not its bits (0 for an infinity or a NaN of
\* the model).
TransmuteByConversion(T, U, word) ==
    IF T \in {"float32", "float64"} THEN [j \in 1..Len(word) |-> 0] ELSE word

\* The pointer cast: the same memory read as a U.
unsafeTransmutePtr(T, U, word) == word

(***************************************************************************)
(* The context                                                             *)
(***************************************************************************)

\* ctx.bytes
Bytes(ctx) == SubSeq(ctx.back, 1, ctx.len)

\* cap(ctx.bytes)
Cap(ctx) == Len(ctx.back)

NewSerializer == [S |-> "Ser", back |-> <<>>, len |-> 0, err |-> NoErr]

NewSerializerWithCapacity(cap) == [S |-> "Ser", back |-> Zeros(cap), len |-> 0, err |-> NoErr]

NewSerializerWithBacking(bytes) == [S |-> "Ser", back |-> bytes, len |-> 0, err |-> NoErr]

NewDeserializer(bytes) == [S |-> "De", back |-> bytes, len |-> Len(bytes), err |-> NoErr]

IsSerializer(ctx) == sizeEq(ctx.S, "Ser")

IsDeserializer(ctx) == sizeEq(ctx.S, "De")

Error(ctx) == ctx.err

\* An Abort that stores the latest error.
AbortOverwrite(ctx, err) == [ctx |-> [ctx EXCEPT !.err = err], err |-> err]

\* Abort with a non-nil err (Abort(nil) panics: see AbortOp).
Abort(ctx, err) ==
    LET c == IF ctx.err = NoErr THEN [ctx EXCEPT !.err = err] ELSE ctx
    IN  [ctx |-> c, err |-> c.err]

\* The result of Raw: the context after the call, the window (off, n:
\* positions off+1..off+n of the backing array when serializing; bytes: the
\* window's content when deserializing), the returned error, and whether the
\* call panicked (a slice expression out of range).
RawResult(ctx, off, n, bytes, err, panic) ==
    [ctx |-> ctx, off |-> off, n |-> n, bytes |-> bytes, err |-> err, panic |-> panic]

\* A serializing branch that reallocates without copy(newCtxBytes, ctx.bytes).
RawSerNoCopy(ctx, n) ==
    LET grown == IF n + ctx.len > Cap(ctx)
                 THEN [ctx EXCEPT !.back = Zeros(ctx.len) \o Zeros(n)]
                 ELSE ctx
    IN  IF n < 0
        THEN RawResult(grown, 0, 0, <<>>, NoErr, TRUE)
        ELSE RawResult([grown EXCEPT !.len = n + ctx.len], ctx.len, n,
                       SubSeq(grown.back, ctx.len + 1, ctx.len + n), NoErr, FALSE)

\* A serializing branch over a buffer that cannot grow.
RawSerFixed(ctx, n) ==
    IF n < 0 THEN RawResult(ctx, 0, 0, <<>>, NoErr, TRUE)
    ELSE IF n + ctx.len > Cap(ctx) /\ Cap(ctx) > 0
    THEN RawResult([ctx EXCEPT !.err = "buffer full"], 0, 0, <<>>, "buffer full", FALSE)
    ELSE RawResult([ctx EXCEPT !.back = IF n + ctx.len > Cap(ctx)
                                        THEN Bytes(ctx) \o Zeros(n) ELSE ctx.back,
                               !.len = n + ctx.len],
                   ctx.len, n, Zeros(n), NoErr, FALSE)

\* Raw's serializing branch.
RawSer(ctx, n) ==
    LET grown == IF n + ctx.len > Cap(ctx)
                 THEN [ctx EXCEPT !.back = Bytes(ctx) \o Zeros(n)]
                 ELSE ctx
    IN  IF n < 0
        THEN RawResult(grown, 0, 0, <<>>, NoErr, TRUE)
        ELSE RawResult([grown EXCEPT !.len = n + ctx.len], ctx.len, n,
                       SubSeq(grown.back, ctx.len + 1, ctx.len + n), NoErr, FALSE)

\* A deserializing branch that also refuses the last n bytes.
RawDeOffByOne(ctx, n) ==
    IF n >= ctx.len
    THEN RawResult(Abort(ctx, errUnexpectedEnd).ctx, 0, 0, <<>>,
                   Abort(ctx, errUnexpectedEnd).err, FALSE)
    ELSE IF n < 0
    THEN RawResult(ctx, 0, 0, <<>>, NoErr, TRUE)
    ELSE RawResult([ctx EXCEPT !.back = SubSeq(ctx.back, n + 1, Len(ctx.back)),
                               !.len = ctx.len - n],
                   0, n, SubSeq(ctx.back, 1, n), NoErr, FALSE)

\* A deserializing branch that drops what is left of the buffer when it fails.
RawDeDropRest(ctx, n) ==
    IF n > ctx.len
    THEN RawResult([ctx EXCEPT !.back = <<>>, !.len = 0, !.err = errUnexpectedEnd],
                   0, 0, <<>>, errUnexpectedEnd, FALSE)
    ELSE IF n < 0
    THEN RawResult(ctx, 0, 0, <<>>, NoErr, TRUE)
    ELSE RawResult([ctx EXCEPT !.back = SubSeq(ctx.back, n + 1, Len(ctx.back)),
                               !.len = ctx.len - n],
                   0, n, SubSeq(ctx.back, 1, n), NoErr, FALSE)

\* Raw's deserializing branch.
RawDe(ctx, n) ==
    IF n > ctx.len
    THEN RawResult(Abort(ctx, errUnexpectedEnd).ctx, 0, 0, <<>>,
                   Abort(ctx, errUnexpectedEnd).err, FALSE)
    ELSE IF n < 0
    THEN RawResult(ctx, 0, 0, <<>>, NoErr, TRUE)
    ELSE RawResult([ctx EXCEPT !.back = SubSeq(ctx.back, n + 1, Len(ctx.back)),
                               !.len = ctx.len - n],
                   0, n, SubSeq(ctx.back, 1, n), NoErr, FALSE)

\* A Raw that does not look at the stored error.
RawUnchecked(ctx, n) == IF IsSerializer(ctx) THEN RawSer(ctx, n) ELSE RawDe(ctx, n)

Raw(ctx, n) ==
    IF ctx.err # NoErr THEN RawResult(ctx, 0, 0, <<>>, ctx.err, FALSE)
    ELSE IF IsSerializer(ctx) THEN RawSer(ctx, n)
    ELSE RawDe(ctx, n)

\* A copy that skips zero bytes, counting on the window being zeroed already.
CopySkipZero(ctx, off, n, data) ==
    [ctx EXCEPT !.back = [j \in 1..Len(ctx.back) |->
                             IF j > off /\ j <= off + n /\ j - off <= Len(data)
                                /\ data[j - off] # 0
                             THEN data[j - off]
                             ELSE ctx.back[j]]]

\* copy(window, data) into the window Raw granted at off, n.
CopyToWindow(ctx, off, n, data) ==
    LET m == IF Len(data) < n THEN Len(data) ELSE n
    IN  [ctx EXCEPT !.back = [j \in 1..Len(ctx.back) |->
                                 IF j > off /\ j <= off + m THEN data[j - off]
                                 ELSE ctx.back[j]]]

(***************************************************************************)
(* Numbers                                                                 *)
(***************************************************************************)

\* The results of the codecs: the context and the value after the call, the
\* returned error, and whether the call panicked.
Result(ctx, val, err) == [ctx |-> ctx, val |-> val, err |-> err, panic |-> FALSE]

Panic(ctx, val) == [ctx |-> ctx, val |-> val, err |-> NoErr, panic |-> TRUE]

\* A serializing loop that writes the most significant byte first.
integerWriteBigEndian(T, value) ==
    [i \in 1..Sizeof(T) |-> ByteOfWord(ShrWord(value, Shl3(Sizeof(T) - i), IsSigned(T)))]

\* The bytes integer's serializing loop writes for a value of type T.
integerWrite(T, value) ==
    [i \in 1..Sizeof(T) |-> ByteOfWord(ShrWord(value, Shl3(i - 1), IsSigned(T)))]

RECURSIVE integerReadNoShift(_, _, _)
\* A deserializing loop that ORs the bytes without shifting them.
integerReadNoShift(T, bytes, i) ==
    IF i > Len(bytes) THEN Zeros(Sizeof(T))
    ELSE OrWord(WordOfByte(bytes[i], Sizeof(T)), integerReadNoShift(T, bytes, i + 1))

RECURSIVE integerRead(_, _, _)
\* The value integer's deserializing loop has built after the bytes from
\* index i on are OR-ed into readValue.
integerRead(T, bytes, i) ==
    IF i > Len(bytes) THEN Zeros(Sizeof(T))
    ELSE OrWord(ShlWord(WordOfByte(bytes[i], Sizeof(T)), Shl3(i - 1)),
                integerRead(T, bytes, i + 1))

\* F(x) with x evaluated once, F's parameter bound to its value.
With(x, F(_)) == CHOOSE y \in {F(r) : r \in {x}} : TRUE

\* An integer that zeroes the destination when Raw fails.
integerClobber(ctx, T, value) ==
    With(Raw(ctx, Sizeof(T)), LAMBDA r :
        IF r.err # NoErr THEN Result(r.ctx, Zeros(Sizeof(T)), r.err)
        ELSE IF IsSerializer(ctx)
        THEN Result(CopyToWindow(r.ctx, r.off, r.n, integerWrite(T, value)), value, NoErr)
        ELSE Result(r.ctx, integerRead(T, r.bytes, 1), NoErr))

integer(ctx, T, value) ==
    With(Raw(ctx, Sizeof(T)), LAMBDA r :
        IF r.err # NoErr THEN Result(r.ctx, value, r.err)
        ELSE IF IsSerializer(ctx)
        THEN Result(CopyToWindow(r.ctx, r.off, r.n, integerWrite(T, value)), value, NoErr)
        ELSE Result(r.ctx, integerRead(T, r.bytes, 1), NoErr))

Number(ctx, T, value) ==
    IF canTransmute(T, "uint8") THEN integer(ctx, "uint8", unsafeTransmutePtr(T, "uint8", value))
    ELSE IF canTransmute(T, "uint16") THEN integer(ctx, "uint16", unsafeTransmutePtr(T, "uint16", value))
    ELSE IF canTransmute(T, "uint32") THEN integer(ctx, "uint32", unsafeTransmutePtr(T, "uint32", value))
    ELSE IF canTransmute(T, "uint64") THEN integer(ctx, "uint64", unsafeTransmutePtr(T, "uint64", value))
    ELSE IF canTransmute(T, "uint") THEN integer(ctx, "uint", unsafeTransmutePtr(T, "uint", value))
    ELSE IF canTransmute(T, "uintptr") THEN integer(ctx, "uintptr", unsafeTransmutePtr(T, "uintptr", value))
    ELSE Panic(ctx, value)

(***************************************************************************)
(* Values and codec functions                                              *)
(*                                                                         *)
(* A codec function (the f of Slice, the fK and fV of Map, a field of a    *)
(* struct's codec) is named by a type descriptor:                          *)
(*   [k |-> "Number", T |-> a number type]     a word                      *)
(*   [k |-> "String"]                          a sequence of bytes         *)
(*   [k |-> "Bytes"]                           [back, len]: a []byte       *)
(*   [k |-> "Slice", elem |-> descriptor]      a sequence of values        *)
(*   [k |-> "Map", key |-> d, val |-> d]       [isnil, m]: m a function    *)
(*   [k |-> "Binary"]                          a value of the capability   *)
(*   [k |-> "Struct", fields |-> <<d, ...>>]   a tuple of field values     *)
(***************************************************************************)

\* []byte: content, length and capacity.
GoBytes(content, cap) ==
    [back |-> content \o Zeros(cap - Len(content)), len |-> Len(content)]

Content(b) == SubSeq(b.back, 1, b.len)

NilMap == [isnil |-> TRUE, m |-> <<>>]

\* A non-nil map with the entries of the function m.
GoMap(m) == [isnil |-> FALSE, m |-> m]

\* (*m)[k] = v
MapStore(gm, k, v) ==
    [gm EXCEPT !.m = [x \in DOMAIN gm.m \cup {k} |-> IF x = k THEN v ELSE gm.m[x]]]

\* The external binary capability: a value is a small number or BadStamp, the
\* value the capability cannot marshal.  Its encoding is a version byte and the
\* value, as that of time.Time begins with a version byte.
StampVersion == 1

BadStamp == 255

MarshalBinary(value) ==
    IF value = BadStamp
    THEN [data |-> <<>>, err |-> "Stamp.MarshalBinary: unrepresentable value"]
    ELSE [data |-> <<StampVersion, value>>, err |-> NoErr]

UnmarshalBinary(value, data) ==
    IF Len(data) = 0
    THEN [value |-> value, err |-> "Stamp.UnmarshalBinary: no data"]
    ELSE IF data[1] # StampVersion
    THEN [value |-> value, err |-> "Stamp.UnmarshalBinary: unsupported version"]
    ELSE IF Len(data) # 2 \/ data[2] = BadStamp
    THEN [value |-> value, err |-> "Stamp.UnmarshalBinary: invalid length"]
    ELSE [value |-> data[2], err |-> NoErr]

RECURSIVE Zero(_)
\* The zero value of a type.
Zero(ty) ==
    CASE ty.k = "Number" -> Zeros(Sizeof(ty.T))
      [] ty.k = "String" -> <<>>
      [] ty.k = "Bytes" -> GoBytes(<<>>, 0)
      [] ty.k = "Slice" -> <<>>
      [] ty.k = "Map" -> NilMap
      [] ty.k = "Binary" -> 0
      [] ty.k = "Struct" -> [j \in 1..Len(ty.fields) |-> Zero(ty.fields[j])]

RECURSIVE SetToSeq(_)
\* The elements of a finite set in a fixed order.
SetToSeq(S) ==
    IF S = {} THEN <<>>
    ELSE LET x == CHOOSE y \in S : TRUE IN <<x>> \o SetToSeq(S \ {x})

RECURSIVE Permute(_, _)
\* The ord-th permutation of a sequence.
Permute(seq, ord) ==
    IF seq = <<>> THEN <<>>
    ELSE LET n == Len(seq)
             p == (ord % n) + 1
         IN  <<seq[p]>> \o Permute(SubSeq(seq, 1, p - 1) \o SubSeq(seq, p + 1, n), ord \div n)

\* The order in which `for k, v := range *m` yields the keys: any order; ord
\* selects it.
RangeOrder(gm, ord) == Permute(SetToSeq(DOMAIN gm.m), ord)

\* int(length) after integer(ctx, &length) returned l.
LengthOf(l) == IntOf(l.val, IsSigned("int"))

String(ctx, str) ==
    With(integer(ctx, "int", WordOf(Len(str), Sizeof("int"))), LAMBDA l :
        IF l.err # NoErr THEN Result(l.ctx, str, l.err)
        ELSE With(Raw(l.ctx, LengthOf(l)), LAMBDA r :
            IF r.panic THEN Panic(r.ctx, str)
            ELSE IF r.err # NoErr THEN Result(r.ctx, str, r.err)
            ELSE IF IsSerializer(ctx)
            THEN Result(CopyToWindow(r.ctx, r.off, r.n, str), str, NoErr)
            ELSE Result(r.ctx, r.bytes, NoErr)))

\* The destination of Bytes after its deserializing branch read ctxBytes.
BytesRead(bytes, ctxBytes) ==
    LET dst == IF Len(bytes.back) < Len(ctxBytes)
               THEN [back |-> Zeros(Len(ctxBytes)), len |-> Len(ctxBytes)]
               ELSE bytes
    IN  [dst EXCEPT !.back = [j \in 1..Len(dst.back) |->
                                 IF j <= Len(ctxBytes) THEN ctxBytes[j] ELSE dst.back[j]]]

\* Bytes; named BytesCodec because Bytes is ctx.Bytes().
BytesCodec(ctx, bytes) ==
    With(integer(ctx, "int", WordOf(bytes.len, Sizeof("int"))), LAMBDA l :
        IF l.err # NoErr THEN Result(l.ctx, bytes, l.err)
        ELSE With(Raw(l.ctx, LengthOf(l)), LAMBDA r :
            IF r.panic THEN Panic(r.ctx, bytes)
            ELSE IF r.err # NoErr THEN Result(r.ctx, bytes, r.err)
            ELSE IF IsSerializer(ctx)
            THEN Result(CopyToWindow(r.ctx, r.off, r.n, Content(bytes)), bytes, NoErr)
            ELSE Result(r.ctx, BytesRead(bytes, r.bytes), NoErr)))

\* A serializing branch that returns MarshalBinary's failure without Abort.
BinaryWriteNoAbort(ctx, value) ==
    With(MarshalBinary(value), LAMBDA mb :
        IF mb.err # NoErr
        THEN Result(ctx, value, mb.err)
        ELSE With(integer(ctx, "int", WordOf(Len(mb.data), Sizeof("int"))), LAMBDA l :
             With(Raw(l.ctx, Len(mb.data)), LAMBDA r :
                IF r.panic THEN Panic(r.ctx, value)
                ELSE IF r.err # NoErr THEN Result(r.ctx, value, r.err)
                ELSE Result(CopyToWindow(r.ctx, r.off, r.n, mb.data), value, NoErr))))

\* Binary's serializing branch.
BinaryWrite(ctx, value) ==
    With(MarshalBinary(value), LAMBDA mb :
        IF mb.err # NoErr
        THEN With(Abort(ctx, mb.err), LAMBDA a : Result(a.ctx, value, a.err))
        ELSE With(integer(ctx, "int", WordOf(Len(mb.data), Sizeof("int"))), LAMBDA l :
             With(Raw(l.ctx, Len(mb.data)), LAMBDA r :
                IF r.panic THEN Panic(r.ctx, value)
                ELSE IF r.err # NoErr THEN Result(r.ctx, value, r.err)
                ELSE Result(CopyToWindow(r.ctx, r.off, r.n, mb.data), value, NoErr))))

\* Binary's deserializing branch.
BinaryRead(ctx, value) ==
    With(integer(ctx, "int", Zeros(Sizeof("int"))), LAMBDA l :
    With(Raw(l.ctx, LengthOf(l)), LAMBDA r :
        IF r.panic THEN Panic(r.ctx, value)
        ELSE IF r.err # NoErr THEN Result(r.ctx, value, r.err)
        ELSE With(UnmarshalBinary(value, r.bytes), LAMBDA ub :
            IF ub.err # NoErr THEN Result(r.ctx, ub.value, ub.err)
            ELSE Result(r.ctx, ub.value, NoErr))))

Binary(ctx, value) ==
    IF IsSerializer(ctx) THEN BinaryWrite(ctx, value) ELSE BinaryRead(ctx, value)

RECURSIVE Codec(_, _, _, _)
RECURSIVE SliceLoop(_, _, _, _, _, _)
RECURSIVE MapWriteLoop(_, _, _, _, _, _)
RECURSIVE MapReadLoop(_, _, _, _, _, _)
RECURSIVE StructLoop(_, _, _, _, _)

RECURSIVE SliceLoopToTheEnd(_, _, _, _, _, _)
\* A loop that calls f on all of the first `length` elements and returns the
\* last error afterwards.
SliceLoopToTheEnd(ctx, slice, f, i, length, ord) ==
    IF i > length THEN Result(ctx, slice, NoErr)
    ELSE With(Codec(ctx, f, slice[i], ord), LAMBDA e :
        IF e.panic THEN Panic(e.ctx, [slice EXCEPT ![i] = e.val])
        ELSE With(SliceLoopToTheEnd(e.ctx, [slice EXCEPT ![i] = e.val], f, i + 1, length,
                                    ord),
                  LAMBDA t : IF t.err = NoErr /\ ~t.panic
                             THEN Result(t.ctx, t.val, e.err)
                             ELSE t))

\* Slice's loop from index i (1-based) on: f on each of the first `length`
\* elements until one returns an error.
SliceLoop(ctx, slice, f, i, length, ord) ==
    IF i > length THEN Result(ctx, slice, NoErr)
    ELSE With(Codec(ctx, f, slice[i], ord), LAMBDA e :
        IF e.panic THEN Panic(e.ctx, [slice EXCEPT ![i] = e.val])
        ELSE IF e.err # NoErr THEN Result(e.ctx, [slice EXCEPT ![i] = e.val], e.err)
        ELSE SliceLoop(e.ctx, [slice EXCEPT ![i] = e.val], f, i + 1, length, ord))

\* Slice.  make([]T, length) with a length of Huge ends the program (makeslice:
\* len out of range, or out of memory).
Slice(ctx, slice, f, ord) ==
    With(integer(ctx, "int", WordOf(Len(slice), Sizeof("int"))), LAMBDA l :
        IF l.err # NoErr THEN Result(l.ctx, slice, l.err)
        ELSE IF LengthOf(l) >= Huge THEN Panic(l.ctx, slice)
        ELSE SliceLoop(l.ctx,
                       IF Len(slice) < LengthOf(l)
                       THEN slice \o [j \in 1..(LengthOf(l) - Len(slice)) |-> Zero(f)]
                       ELSE slice,
                       f, 1, LengthOf(l), ord))

\* Map's serializing loop over the keys in the order the range yields them.
MapWriteLoop(ctx, gm, keys, fK, fV, ord) ==
    IF keys = <<>> THEN Result(ctx, gm, NoErr)
    ELSE With(Codec(ctx, fK, keys[1], ord), LAMBDA k :
        IF k.panic THEN Panic(k.ctx, gm)
        ELSE IF k.err # NoErr THEN Result(k.ctx, gm, k.err)
        ELSE With(Codec(k.ctx, fV, gm.m[keys[1]], ord), LAMBDA v :
            IF v.panic THEN Panic(v.ctx, gm)
            ELSE IF v.err # NoErr THEN Result(v.ctx, gm, v.err)
            ELSE MapWriteLoop(v.ctx, gm, Tail(keys), fK, fV, ord)))

RECURSIVE MapReadLoopEager(_, _, _, _, _, _)
\* A loop that stores the entry before it looks at the error of the value's
\* codec.
MapReadLoopEager(ctx, gm, left, fK, fV, ord) ==
    IF left <= 0 THEN Result(ctx, gm, NoErr)
    ELSE With(Codec(ctx, fK, Zero(fK), ord), LAMBDA k :
        IF k.panic THEN Panic(k.ctx, gm)
        ELSE IF k.err # NoErr THEN Result(k.ctx, gm, k.err)
        ELSE With(Codec(k.ctx, fV, Zero(fV), ord), LAMBDA v :
            IF v.panic THEN Panic(v.ctx, gm)
            ELSE IF v.err # NoErr THEN Result(v.ctx, MapStore(gm, k.val, v.val), v.err)
            ELSE MapReadLoopEager(v.ctx, MapStore(gm, k.val, v.val), left - 1, fK, fV,
                                  ord)))

\* Map's deserializing loop with `left` entries still to read.
MapReadLoop(ctx, gm, left, fK, fV, ord) ==
    IF left <= 0 THEN Result(ctx, gm, NoErr)
    ELSE With(Codec(ctx, fK, Zero(fK), ord), LAMBDA k :
        IF k.panic THEN Panic(k.ctx, gm)
        ELSE IF k.err # NoErr THEN Result(k.ctx, gm, k.err)
        ELSE With(Codec(k.ctx, fV, Zero(fV), ord), LAMBDA v :
            IF v.panic THEN Panic(v.ctx, gm)
            ELSE IF v.err # NoErr THEN Result(v.ctx, gm, v.err)
            ELSE MapReadLoop(v.ctx, MapStore(gm, k.val, v.val), left - 1, fK, fV, ord)))

Map(ctx, gm, fK, fV, ord) ==
    With(integer(ctx, "int", WordOf(Cardinality(DOMAIN gm.m), Sizeof("int"))), LAMBDA l :
        IF l.err # NoErr THEN Result(l.ctx, gm, l.err)
        ELSE IF IsSerializer(ctx)
        THEN MapWriteLoop(l.ctx, gm, RangeOrder(gm, ord), fK, fV, ord)
        ELSE MapReadLoop(l.ctx, IF gm.isnil THEN GoMap(<<>>) ELSE gm, LengthOf(l), fK, fV, ord))

\* The codec of a struct, written as SerdewPerson is: one codec call per field
\* from field i on, every returned error ignored.
StructLoop(ctx, val, fields, i, ord) ==
    IF i > Len(fields) THEN Result(ctx, val, Error(ctx))
    ELSE With(Codec(ctx, fields[i], val[i], ord), LAMBDA e :
        IF e.panic THEN Panic(e.ctx, [val EXCEPT ![i] = e.val])
        ELSE StructLoop(e.ctx, [val EXCEPT ![i] = e.val], fields, i + 1, ord))

\* The codec function a type descriptor names.
Codec(ctx, ty, val, ord) ==
    CASE ty.k = "Number" -> Number(ctx, ty.T, val)
      [] ty.k = "String" -> String(ctx, val)
      [] ty.k = "Bytes" -> BytesCodec(ctx, val)
      [] ty.k = "Slice" -> Slice(ctx, val, ty.elem, ord)
      [] ty.k = "Map" -> Map(ctx, val, ty.key, ty.val, ord)
      [] ty.k = "Binary" -> Binary(ctx, val)
      [] ty.k = "Struct" -> StructLoop(ctx, val, ty.fields, 1, ord)

(***************************************************************************)
(* The program: a caller making codec calls on one context                 *)
(***************************************************************************)

VARIABLES
    ctx,        \* the context
    last,       \* the last call: its inputs, the context before it, its results
    firstFail,  \* the error of the first codec call that returned one
    crashed,    \* the program has panicked
    steps,      \* the number of calls made
    pass,       \* a pass over one value: serialize it, then deserialize the bytes
    threads     \* two goroutines calling into the one context: their positions
                \* and locals, and what they share besides ctx

vars == <<ctx, last, firstFail, crashed, steps, pass, threads>>

calls == <<ctx, last, firstFail, crashed, steps>>

MaxSteps == 2

\* Little-endian 8-byte count.
LE8(n) == WordOf(n, 8)

U8 == [k |-> "Number", T |-> "uint8"]

StringTy == [k |-> "String"]

\* The bit pattern of the float64 1.7.
Float17 == <<51, 51, 51, 51, 51, 51, 251, 63>>

\* The bit pattern of the float32 +Inf.
Float32Inf == <<0, 0, 128, 127>>

\* The bit pattern of a float32 NaN with the payload 1.
Float32NaN == <<1, 0, 192, 127>>

\* The bit pattern of the float64 +Inf.
Float64Inf == <<0, 0, 0, 0, 0, 0, 240, 127>>

\* The bit pattern of a negative float64 NaN with a payload in every byte.
Float64NaN == <<1, 2, 3, 4, 5, 6, 248, 255>>

\* The buffers handed to NewDeserializer.
Inputs ==
    { <<>>,
      LE8(1) \o <<65>> \o LE8(1),
      LE8(0),
      LE8(2) \o <<StampVersion, 7>>,
      LE8(2) \o <<9, 7>>,
      LE8(3) \o <<1>>,
      LE8(1) \o <<5, 6>>,
      LE8(3) \o <<5, 6, 7>>,
      LE8(-1) \o <<1>>,
      LE8(2) \o LE8(2) \o <<9, 7>> \o LE8(2) \o <<StampVersion, 7>>,
      Float64Inf \o Float32NaN,
      Float64NaN \o Float32Inf }

\* The buffers handed to NewSerializerWithBacking.
Backings == { <<9, 9, 9, 9, 9, 9, 9, 9, 9, 9>> }

Contexts ==
    {NewSerializer, NewSerializerWithCapacity(4)}
        \cup {NewSerializerWithBacking(b) : b \in Backings}
        \cup {NewDeserializer(b) : b \in Inputs}

RawSizes == {-1, 0, 1, 2, 9}

NumberArgs ==
    {<<T, WordOf(n, Sizeof(T))>> : T \in {"uint8", "int16", "float32", "uint64"},
                                   n \in {1, 258, -2}}
        \cup {<<"float32", Float32Inf>>, <<"float32", Float32NaN>>,
              <<"float64", Float64Inf>>, <<"float64", Float64NaN>>}

StringArgs == { <<>>, <<65>>, <<72, 105>> }

BytesArgs ==
    {GoBytes(<<>>, 0), GoBytes(<<7>>, 1), GoBytes(<<1, 2, 3>>, 3), GoBytes(<<7>>, 4)}

SliceArgs ==
    {<<U8, s>> : s \in { <<>>, <<WordOf(1, 1)>>, <<WordOf(1, 1), WordOf(2, 1), WordOf(3, 1)>> }}
        \cup {<<StringTy, s>> : s \in { <<>>, << <<65>> >> }}
        \cup {<<[k |-> "Binary"], s>> : s \in { <<>>, <<3, 3, 3>> }}

MapArgs ==
    {NilMap, GoMap(<<>>), GoMap(WordOf(5, 1) :> WordOf(6, 1)),
     GoMap(WordOf(5, 1) :> WordOf(9, 1) @@ WordOf(7, 1) :> WordOf(8, 1))}

\* The orders a range over a map of the model can take.
MaxOrd == 2

BinaryArgs == {0, 7, BadStamp}

AbortArgs == {NoErr, "e1", "e2"}

NoCall ==
    [op |-> "none", ty |-> U8, arg |-> <<>>, pre |-> NewSerializer, val |-> <<>>,
     ret |-> NoErr, win |-> <<>>]

\* No pass is made.
NoPass == [phase |-> "none"]

\* The context is used by one goroutine.
NoThreads == [phase |-> "none"]

Init ==
    /\ ctx \in Contexts
    /\ last = NoCall
    /\ firstFail = NoErr
    /\ crashed = FALSE
    /\ steps = 0
    /\ pass = NoPass
    /\ threads = NoThreads

\* A codec call with result r.
Call(op, ty, arg, r) ==
    /\ ~crashed
    /\ steps < MaxSteps
    /\ ctx' = r.ctx
    /\ last' = [op |-> op, ty |-> ty, arg |-> arg, pre |-> ctx, val |-> r.val,
                ret |-> r.err, win |-> <<>>]
    /\ firstFail' = IF firstFail = NoErr /\ ~r.panic THEN r.err ELSE firstFail
    /\ crashed' = r.panic
    /\ steps' = steps + 1
    /\ UNCHANGED <<pass, threads>>

RawOp ==
    \E n \in RawSizes :
        LET r == Raw(ctx, n)
        IN  /\ ~crashed
            /\ steps < MaxSteps
            /\ ctx' = r.ctx
            /\ last' = [op |-> "Raw", ty |-> U8, arg |-> n, pre |-> ctx, val |-> r.bytes,
                        ret |-> r.err, win |-> <<r.off, r.n>>]
            /\ firstFail' = IF firstFail = NoErr /\ ~r.panic THEN r.err ELSE firstFail
            /\ crashed' = r.panic
            /\ steps' = steps + 1
            /\ UNCHANGED <<pass, threads>>

NumberOp ==
    \E a \in NumberArgs :
        Call("Number", [k |-> "Number", T |-> a[1]], a[2], Number(ctx, a[1], a[2]))

StringOp == \E str \in StringArgs : Call("String", StringTy, str, String(ctx, str))

BytesOp == \E b \in BytesArgs : Call("Bytes", [k |-> "Bytes"], b, BytesCodec(ctx, b))

SliceOp ==
    \E a \in SliceArgs :
        Call("Slice", [k |-> "Slice", elem |-> a[1]], a[2], Slice(ctx, a[2], a[1], 0))

MapOp ==
    \E gm \in MapArgs, ord \in 0..(MaxOrd - 1) :
        Call("Map", [k |-> "Map", key |-> U8, val |-> U8], gm, Map(ctx, gm, U8, U8, ord))

BinaryOp == \E value \in BinaryArgs : Call("Binary", [k |-> "Binary"], value, Binary(ctx, value))

\* Abort(err) by the caller; Abort(nil) panics.
AbortOp ==
    \E err \in AbortArgs :
        /\ ~crashed
        /\ steps < MaxSteps
        /\ ctx' = IF err = NoErr THEN ctx ELSE Abort(ctx, err).ctx
        /\ last' = [op |-> "Abort", ty |-> U8, arg |-> err, pre |-> ctx, val |-> <<>>,
                    ret |-> IF err = NoErr THEN NoErr ELSE Abort(ctx, err).err,
                    win |-> <<>>]
        /\ crashed' = (err = NoErr)
        /\ UNCHANGED <<firstFail, pass, threads>>
        /\ steps' = steps + 1

\* What a query method does: the context after the call and the value
\* returned.
Query(c, ret) == [ctx |-> c, ret |-> ret]

\* An Error() that hands the error over and clears it.
ErrorTake(c) == Query([c EXCEPT !.err = NoErr], c.err)

\* ctx.Error()
ErrorCall(c) == Query(c, c.err)

\* ctx.Bytes()
BytesCall(c) == Query(c, Bytes(c))

\* A query q with result r; last.arg counts the consecutive calls of q.
QueryCall(q, r, val) ==
    /\ ~crashed
    /\ steps < MaxSteps
    /\ ctx' = r.ctx
    /\ last' = [op |-> q, ty |-> U8,
                arg |-> IF last.op = q THEN last.arg + 1 ELSE 1,
                pre |-> ctx, val |-> val,
                ret |-> IF q = "Error" THEN r.ret ELSE NoErr, win |-> <<>>]
    /\ steps' = steps + 1
    /\ UNCHANGED <<firstFail, crashed, pass, threads>>

ErrorQueryOp == \E r \in {ErrorCall(ctx)} : QueryCall("Error", r, <<>>)

BytesQueryOp == \E r \in {BytesCall(ctx)} : QueryCall("Bytes()", r, r.ret)

Next ==
    \/ RawOp
    \/ NumberOp
    \/ StringOp
    \/ BytesOp
    \/ SliceOp
    \/ MapOp
    \/ BinaryOp
    \/ AbortOp
    \/ ErrorQueryOp
    \/ BytesQueryOp

Spec == Init /\ [][Next]_vars

(***************************************************************************)
(* Properties of single calls                                              *)
(***************************************************************************)

CodecOps == {"Raw", "Number", "String", "Bytes", "Slice", "Map", "Binary"}

\* The last call was the codec op, made on an unpoisoned context.
Unpoisoned(op) == last.op = op /\ last.pre.err = NoErr

\* C1: once Error() is non-nil, every later call (a codec call, an Abort with
\* another error, a deserialization that runs out of bytes) leaves it the same
\* error.
C1_FirstErrorWins == [][ctx.err # NoErr => ctx'.err = ctx.err]_vars

\* C1's case: Abort(e2) was called on a context already poisoned with another
\* error.
C1_Witness ==
    /\ last.op = "Abort"
    /\ last.pre.err \notin {NoErr, last.arg}
    /\ last.arg # NoErr

\* C2: when a codec call has returned an error, Error() is that first returned
\* error, so that a caller who ignores the returned errors and asks Error() at
\* the end of the pass misses no failure.
C2_ErrorReportsFirstFailure == firstFail # NoErr => ctx.err = firstFail

\* C5: a codec call on a poisoned context returns the stored error and leaves
\* the buffer and the stored error as they were, without panicking.
C5_PoisonedCallIsNoOp ==
    (last.op \in CodecOps /\ last.pre.err # NoErr) =>
        /\ ~crashed
        /\ last.ret = last.pre.err
        /\ ctx.err = last.pre.err
        /\ Bytes(ctx) = Bytes(last.pre)
        /\ ctx.len = last.pre.len

\* C5's case: Binary on a poisoned serializer with a value whose MarshalBinary
\* fails with another error.
C5_Witness ==
    /\ last.op = "Binary"
    /\ IsSerializer(last.pre)
    /\ last.pre.err # NoErr
    /\ MarshalBinary(last.arg).err \notin {NoErr, last.pre.err}

\* C6: Raw(n), n a count of bytes (n >= 0), on an unpoisoned deserializer with
\* r bytes remaining: with n <= r it returns the first n remaining bytes and
\* the other r - n remain; with n > r it poisons the context with
\* errUnexpectedEnd, returns it with no window, and the remaining bytes stay.
C6_RawDecode ==
    (Unpoisoned("Raw") /\ IsDeserializer(last.pre) /\ last.arg >= 0) =>
        IF last.arg <= last.pre.len
        THEN /\ ~crashed
             /\ last.ret = NoErr
             /\ ctx.err = NoErr
             /\ last.val = SubSeq(Bytes(last.pre), 1, last.arg)
             /\ Bytes(ctx) = SubSeq(Bytes(last.pre), last.arg + 1, last.pre.len)
        ELSE /\ ~crashed
             /\ last.ret = errUnexpectedEnd
             /\ ctx.err = errUnexpectedEnd
             /\ last.val = <<>>
             /\ Bytes(ctx) = Bytes(last.pre)

\* C6's case: Raw(n) granted a window of some but not all of the remaining
\* bytes.
C6_Witness ==
    /\ Unpoisoned("Raw")
    /\ IsDeserializer(last.pre)
    /\ last.arg > 0
    /\ last.arg < last.pre.len
    /\ last.ret = NoErr

\* C7: when Binary on an unpoisoned deserializer returns the failure of
\* UnmarshalBinary, the context is poisoned with it.
C7_UnmarshalFailurePoisons ==
    (Unpoisoned("Binary") /\ IsDeserializer(last.pre) /\ ~crashed /\ last.ret # NoErr) =>
        ctx.err = last.ret

\* C8: when MarshalBinary fails in Binary on an unpoisoned serializer, the
\* context is poisoned with the failure, Binary returns it, and nothing is
\* appended to the buffer.
C8_MarshalFailurePoisons ==
    (Unpoisoned("Binary") /\ IsSerializer(last.pre) /\ MarshalBinary(last.arg).err # NoErr) =>
        /\ ~crashed
        /\ ctx.err = MarshalBinary(last.arg).err
        /\ last.ret = MarshalBinary(last.arg).err
        /\ Bytes(ctx) = Bytes(last.pre)
        /\ ctx.len = last.pre.len

\* C8's case: Binary on an unpoisoned serializer that already holds bytes, with
\* the value MarshalBinary rejects.
C8_Witness ==
    /\ Unpoisoned("Binary")
    /\ IsSerializer(last.pre)
    /\ last.pre.len > 0
    /\ last.arg = BadStamp

\* The 8-byte count at the head of the buffer of a deserializer.
CountAt(c) == IntOf(SubSeq(Bytes(c), 1, Sizeof("int")), IsSigned("int"))

\* C10: Slice on an unpoisoned deserializer whose buffer begins with a count of
\* zero (8 zero bytes) leaves the destination, whatever it held, of length
\* zero, without error; Slice on a serializer with an empty sequence appends
\* those 8 zero bytes and nothing more; and after a Slice on a deserializer
\* that returned no error the destination has exactly `count` elements.
C10_EmptySlice ==
    /\ (Unpoisoned("Slice") /\ IsDeserializer(last.pre) /\ last.pre.len >= Sizeof("int")
            /\ CountAt(last.pre) = 0) =>
           (~crashed /\ last.ret = NoErr /\ Len(last.val) = 0)
    /\ (Unpoisoned("Slice") /\ IsSerializer(last.pre) /\ last.arg = <<>>) =>
           (~crashed /\ last.ret = NoErr /\ Bytes(ctx) = Bytes(last.pre) \o Zeros(8))
    /\ (Unpoisoned("Slice") /\ IsDeserializer(last.pre) /\ last.pre.len >= Sizeof("int")
            /\ CountAt(last.pre) >= 0 /\ CountAt(last.pre) < Huge
            /\ ~crashed /\ last.ret = NoErr) =>
           Len(last.val) = CountAt(last.pre)

(***************************************************************************)
(* Passes: a value is serialized by its codec on a fresh serializer, and   *)
(* the bytes, or a proper prefix of them, are deserialized by the same     *)
(* codec into a destination, as main does with SerdewPerson.               *)
(***************************************************************************)

NumberTy(T) == [k |-> "Number", T |-> T]

BytesTy == [k |-> "Bytes"]

BinaryTy == [k |-> "Binary"]

SliceTy(elem) == [k |-> "Slice", elem |-> elem]

MapTy(key, val) == [k |-> "Map", key |-> key, val |-> val]

StructTy(fields) == [k |-> "Struct", fields |-> fields]

\* A struct with the kinds of fields Person has.
PersonTy ==
    StructTy(<<StringTy, NumberTy("int"), NumberTy("float64"), SliceTy(StringTy),
               SliceTy(StructTy(<<StringTy, U8>>)), MapTy(StringTy, NumberTy("int16")),
               BytesTy, BinaryTy>>)

NestedTy == StructTy(<<SliceTy(SliceTy(U8)), MapTy(U8, StringTy), NumberTy("int32")>>)

PairTy == StructTy(<<StringTy, NumberTy("uint64")>>)

\* The values passes are made over, each with its codec.
PassValues ==
    { [ty |-> PairTy, v |-> << <<65>>, WordOf(1, 8) >>],
      [ty |-> PairTy, v |-> << <<72, 105>>, WordOf(258, 8) >>],
      [ty |-> StructTy(<<StringTy>>), v |-> << <<>> >>],
      [ty |-> StructTy(<<StringTy>>), v |-> << <<72, 105, 33>> >>],
      [ty |-> StructTy(<<NumberTy("uint8")>>), v |-> <<WordOf(254, 1)>>],
      [ty |-> StructTy(<<NumberTy("int16")>>), v |-> <<WordOf(-2, 2)>>],
      [ty |-> StructTy(<<NumberTy("int32")>>), v |-> <<WordOf(66049, 4)>>],
      [ty |-> StructTy(<<NumberTy("int")>>), v |-> <<WordOf(-258, 8)>>],
      [ty |-> StructTy(<<NumberTy("uint64")>>), v |-> <<WordOf(25, 8)>>],
      [ty |-> StructTy(<<NumberTy("float32")>>), v |-> <<Float32Inf>>],
      [ty |-> PersonTy,
       v |-> << <<72, 105>>, WordOf(25, 8), Float17, << <<97>>, <<98, 99>> >>,
                << << <<77>>, WordOf(7, 1) >>, << <<>>, WordOf(0, 1) >> >>,
                GoMap(<<107, 49>> :> WordOf(1, 2) @@ <<107, 50>> :> WordOf(-2, 2)),
                GoBytes(<<1, 2, 3>>, 3), 7 >>],
      [ty |-> PersonTy,
       v |-> << <<>>, WordOf(0, 8), Zeros(8), <<>>, <<>>, NilMap, GoBytes(<<>>, 0), 0 >>],
      [ty |-> PersonTy,
       v |-> << <<65>>, WordOf(-1, 8), Float17, << <<>> >>, <<>>, GoMap(<<>>),
                GoBytes(<<7>>, 4), BadStamp >>],
      [ty |-> NestedTy,
       v |-> << << <<WordOf(1, 1), WordOf(2, 1)>>, <<>>, <<WordOf(3, 1)>> >>,
                GoMap(WordOf(5, 1) :> <<65>> @@ WordOf(6, 1) :> <<>>),
                WordOf(-2, 4) >>] }

PriorKinds == {"zero", "marked", "dirty"}

RECURSIVE Prior(_, _)
\* The value the destination holds before the deserializing pass: the zero
\* value ("zero"); numbers, strings and capability values set, sequences and
\* maps empty ("marked"); or everything set, sequences and maps non-empty
\* ("dirty").
Prior(ty, kind) ==
    CASE kind = "zero" -> Zero(ty)
      [] ty.k = "Number" -> WordOf(-2, Sizeof(ty.T))
      [] ty.k = "String" -> <<90>>
      [] ty.k = "Binary" -> 3
      [] ty.k = "Struct" -> [j \in 1..Len(ty.fields) |-> Prior(ty.fields[j], kind)]
      [] ty.k = "Bytes" -> IF kind = "dirty" THEN GoBytes(<<9, 9, 9, 9>>, 4) ELSE Zero(ty)
      [] ty.k = "Slice" ->
            IF kind = "dirty" THEN [j \in 1..4 |-> Prior(ty.elem, kind)] ELSE Zero(ty)
      [] ty.k = "Map" ->
            IF kind = "dirty" THEN GoMap(Prior(ty.key, kind) :> Prior(ty.val, kind))
            ELSE Zero(ty)

PassInit ==
    /\ ctx = NewSerializer
    /\ last = NoCall
    /\ firstFail = NoErr
    /\ crashed = FALSE
    /\ steps = 0
    /\ threads = NoThreads
    /\ \E pv \in PassValues, ord \in 0..(MaxOrd - 1), kind \in PriorKinds :
           pass = [phase |-> "start", ty |-> pv.ty, v |-> pv.v, ord |-> ord, prior |-> kind,
                   dst0 |-> Prior(pv.ty, kind)]

\* ser := NewSerializer(); Serdew(ser, &v)
SerializePass ==
    /\ pass.phase = "start"
    /\ \E r \in {Codec(NewSerializer, pass.ty, pass.v, pass.ord)} :
           pass' = [phase |-> "serialized", ty |-> pass.ty, v |-> pass.v, ord |-> pass.ord,
                    prior |-> pass.prior, dst0 |-> pass.dst0,
                    ser |-> r.ctx, serRet |-> r.err, serPanic |-> r.panic]
    /\ UNCHANGED <<calls, threads>>

\* The deserializing pass over the first cut bytes of the serializer's buffer.
Deserialize(phase, cut) ==
    \E r \in {Codec(NewDeserializer(SubSeq(Bytes(pass.ser), 1, cut)), pass.ty, pass.dst0,
                    pass.ord)} :
        pass' = [phase |-> phase, ty |-> pass.ty, v |-> pass.v, ord |-> pass.ord,
                 prior |-> pass.prior, dst0 |-> pass.dst0,
                 ser |-> pass.ser, serRet |-> pass.serRet, serPanic |-> pass.serPanic,
                 cut |-> cut, de |-> r.ctx, dst |-> r.val, deRet |-> r.err,
                 dePanic |-> r.panic]

\* de := NewDeserializer(ser.Bytes()); Serdew(de, &dst)
DeserializePass ==
    /\ pass.phase = "serialized"
    /\ ~pass.serPanic
    /\ Deserialize("deserialized", pass.ser.len)
    /\ UNCHANGED <<calls, threads>>

\* The same over a proper prefix of ser.Bytes().
TruncatedPass ==
    /\ pass.phase = "serialized"
    /\ ~pass.serPanic
    /\ \E cut \in 0..(pass.ser.len - 1) : Deserialize("truncated", cut)
    /\ UNCHANGED <<calls, threads>>

\* The bytes an earlier pass over the value pv left in its buffer.
EarlierPass(pv) == Bytes(Codec(NewSerializer, pv.ty, pv.v, 0).ctx)

\* ser2 := NewSerializerWithBacking(stale); Serdew(ser2, &v): the value is
\* serialized again over the buffer of an earlier pass, its maps ranged over
\* in the order ord2.
ReusePass ==
    /\ pass.phase = "serialized"
    /\ ~pass.serPanic
    /\ \E pv \in PassValues, ord2 \in 0..(MaxOrd - 1) :
         \E stale \in {EarlierPass(pv)} :
           \E r \in {Codec(NewSerializerWithBacking(stale), pass.ty, pass.v, ord2)} :
               pass' = [phase |-> "reused", ty |-> pass.ty, v |-> pass.v, ord |-> pass.ord,
                        prior |-> pass.prior, dst0 |-> pass.dst0,
                        ser |-> pass.ser, serRet |-> pass.serRet,
                        serPanic |-> pass.serPanic,
                        stale |-> stale, ord2 |-> ord2, ser2 |-> r.ctx, ser2Ret |-> r.err,
                        ser2Panic |-> r.panic]
    /\ UNCHANGED <<calls, threads>>

PassNext ==
    \/ SerializePass
    \/ DeserializePass
    \/ TruncatedPass
    \/ ReusePass

SpecPass == PassInit /\ [][PassNext]_vars

RECURSIVE ValEq(_, _, _)
\* Two values of a type are equal: sequences element by element in order, maps
\* as sets of key -> value entries, byte slices by content.
ValEq(ty, a, b) ==
    CASE ty.k \in {"Number", "String", "Binary"} -> a = b
      [] ty.k = "Bytes" -> Content(a) = Content(b)
      [] ty.k = "Slice" ->
            /\ Len(a) = Len(b)
            /\ \A j \in 1..Len(a) : ValEq(ty.elem, a[j], b[j])
      [] ty.k = "Map" ->
            /\ DOMAIN a.m = DOMAIN b.m
            /\ \A x \in DOMAIN a.m : ValEq(ty.val, a.m[x], b.m[x])
      [] ty.k = "Struct" -> \A j \in 1..Len(ty.fields) : ValEq(ty.fields[j], a[j], b[j])

\* The pass has a serialized value (no MarshalBinary failed) and a destination
\* whose sequences and maps are empty, as a new variable's are.
FreshPass(phase) ==
    /\ pass.phase = phase
    /\ pass.ser.err = NoErr
    /\ pass.prior \in {"zero", "marked"}

\* C3: the deserializing pass over the bytes of the serializing pass leaves the
\* destination equal to the value, with no error and no byte unconsumed.
C3_RoundTrip ==
    FreshPass("deserialized") =>
        /\ ~pass.dePanic
        /\ ValEq(pass.ty, pass.dst, pass.v)
        /\ pass.de.err = NoErr
        /\ pass.deRet = NoErr
        /\ Bytes(pass.de) = <<>>

\* C3's case: a pass over the Person value with two map entries, two nested
\* structs and a capability value has been deserialized.
C3_Witness ==
    /\ FreshPass("deserialized")
    /\ pass.ty = PersonTy
    /\ Cardinality(DOMAIN pass.v[6].m) = 2
    /\ Len(pass.v[5]) = 2

\* The length of the serializer's buffer after the first i fields of the
\* pass's struct.
FieldEnd(i) ==
    Codec(NewSerializer, StructTy(SubSeq(pass.ty.fields, 1, i)), SubSeq(pass.v, 1, i),
          pass.ord).ctx.len

\* C4: the deserializing pass over a proper prefix of the bytes poisons the
\* context with errUnexpectedEnd; a field whose bytes lie wholly in the prefix
\* holds its value, and a field after the one that failed holds what it held
\* before the pass.
C4_Truncated ==
    FreshPass("truncated") =>
        /\ ~pass.dePanic
        /\ pass.de.err = errUnexpectedEnd
        /\ \A i \in 1..Len(pass.ty.fields) :
               /\ FieldEnd(i) <= pass.cut => ValEq(pass.ty.fields[i], pass.dst[i], pass.v[i])
               /\ FieldEnd(i - 1) > pass.cut => pass.dst[i] = pass.dst0[i]

\* C4's case: the prefix ends inside the fourth field of a Person whose fields
\* were set before the pass, so that fields lie before and after the failure.
C4_Witness ==
    /\ FreshPass("truncated")
    /\ pass.prior = "marked"
    /\ pass.ty = PersonTy
    /\ FieldEnd(3) < pass.cut
    /\ pass.cut < FieldEnd(4)

\* The bytes of the claim's formula for an integer n of w bytes: byte i is
\* (n >> 8i) & 0xFF.
ShiftMaskBytes(n, w) == [i \in 1..w |-> ShrInt(n, i - 1) % 256]

\* C9: on a fresh serializer String(s) appends the 8-byte little-endian length
\* of s and then the bytes of s, Number on a w-byte integer appends the w bytes
\* (value >> 8i) & 0xFF, and String("A") followed by Number(uint64 1) gives
\* 1,0,0,0,0,0,0,0, 0x41, 1,0,0,0,0,0,0,0.
C9_WireFormat ==
    (pass.phase = "serialized") =>
        /\ (pass.ty = StructTy(<<StringTy>>)) =>
               Bytes(pass.ser) = ShiftMaskBytes(Len(pass.v[1]), 8) \o pass.v[1]
        /\ (Len(pass.ty.fields) = 1 /\ pass.ty.fields[1].k = "Number"
                /\ pass.ty.fields[1].T # "float32") =>
               Bytes(pass.ser) =
                   ShiftMaskBytes(IntOf(pass.v[1], IsSigned(pass.ty.fields[1].T)),
                                  Sizeof(pass.ty.fields[1].T))
        /\ (pass.ty = PairTy /\ pass.v = << <<65>>, WordOf(1, 8) >>) =>
               Bytes(pass.ser) = <<1, 0, 0, 0, 0, 0, 0, 0, 65, 1, 0, 0, 0, 0, 0, 0, 0>>

\* C9's case: String("A") and Number(uint64 1) have been serialized.
C9_Witness ==
    /\ pass.phase = "serialized"
    /\ pass.ty = PairTy
    /\ pass.v = << <<65>>, WordOf(1, 8) >>
    /\ pass.ser.len = 17

(***************************************************************************)
(* Reusing a buffer                                                        *)
(***************************************************************************)

RECURSIVE SingleOrder(_, _)
\* No map of the value has more than one entry, so that ranging over its
\* maps has one possible order.
SingleOrder(ty, v) ==
    CASE ty.k \in {"Number", "String", "Binary", "Bytes"} -> TRUE
      [] ty.k = "Slice" -> \A j \in 1..Len(v) : SingleOrder(ty.elem, v[j])
      [] ty.k = "Map" ->
            /\ Cardinality(DOMAIN v.m) <= 1
            /\ \A x \in DOMAIN v.m : SingleOrder(ty.key, x) /\ SingleOrder(ty.val, v.m[x])
      [] ty.k = "Struct" -> \A j \in 1..Len(ty.fields) : SingleOrder(ty.fields[j], v[j])

\* C11 as stated: serializing a value over the buffer of an earlier pass gives
\* byte for byte the output of serializing it into a fresh buffer, for every
\* value, values with maps included.
C11_ReuseIdentical ==
    pass.phase = "reused" => Bytes(pass.ser2) = Bytes(pass.ser)

\* C11: serializing a value over the buffer of an earlier pass gives byte for
\* byte the output a fresh serializer gives when the value's maps are ranged
\* over in the same order, so no byte of the earlier pass shows; the output
\* equals that of another fresh pass when the order repeats or when no map of
\* the value has more than one entry.
C11_ReuseDeterminism ==
    pass.phase = "reused" =>
        /\ ~pass.ser2Panic
        /\ Bytes(pass.ser2) = Bytes(Codec(NewSerializer, pass.ty, pass.v, pass.ord2).ctx)
        /\ pass.ser2Ret = Codec(NewSerializer, pass.ty, pass.v, pass.ord2).err
        /\ (pass.ord2 = pass.ord \/ SingleOrder(pass.ty, pass.v)) =>
               /\ Bytes(pass.ser2) = Bytes(pass.ser)
               /\ pass.ser2Ret = pass.serRet

\* A value with a two-entry map was serialized, without reallocation, over
\* the longer and different bytes of an earlier pass.
C11_Witness ==
    /\ pass.phase = "reused"
    /\ ~SingleOrder(pass.ty, pass.v)
    /\ pass.ser2.len > 0
    /\ Len(pass.stale) > pass.ser2.len
    /\ Cap(pass.ser2) = Len(pass.stale)
    /\ SubSeq(pass.stale, 1, pass.ser2.len) # Bytes(pass.ser2)

(***************************************************************************)
(* Lengths, floats and queries                                             *)
(***************************************************************************)

\* The 8-byte length prefix at the head of the buffer of c, read as unsigned.
UnsignedCountAt(c) == IntOf(SubSeq(Bytes(c), 1, Sizeof("int")), FALSE)

\* C12: String, Bytes or Binary on a deserializer whose 8-byte length prefix,
\* read as an unsigned number, exceeds the bytes that remain after it (every
\* pattern with the top bit set included) poisons the context with the
\* unexpected-end error and does not crash.
C12_LengthUnsigned ==
    (/\ last.op \in {"String", "Bytes", "Binary"}
     /\ IsDeserializer(last.pre)
     /\ last.pre.err = NoErr
     /\ last.pre.len >= Sizeof("int")
     /\ UnsignedCountAt(last.pre) > last.pre.len - Sizeof("int"))
        => /\ ~crashed
           /\ last.ret = errUnexpectedEnd
           /\ ctx.err = errUnexpectedEnd

FloatTypes == {"float32", "float64"}

\* The unsigned integer type of the width of T.
UintOfWidth(T) == IF Sizeof(T) = Sizeof("uint32") THEN "uint32" ELSE "uint64"

\* C13: Number on a float32 or float64 writes the bytes of the value's bit
\* pattern, least significant first, which are the bytes Number writes for
\* the unsigned integer of the same width holding that pattern; reading gives
\* the float whose bit pattern the bytes hold (+Inf and NaN payloads
\* included), whatever the destination held before.
C13_FloatBitPattern ==
    (Unpoisoned("Number") /\ last.ty.T \in FloatTypes) =>
        IF IsSerializer(last.pre)
        THEN /\ ~crashed
             /\ last.ret = NoErr
             /\ Bytes(ctx) = Bytes(last.pre) \o last.arg
             /\ Bytes(ctx) = Bytes(Number(last.pre, UintOfWidth(last.ty.T), last.arg).ctx)
        ELSE last.pre.len >= Sizeof(last.ty.T) =>
                /\ ~crashed
                /\ last.ret = NoErr
                /\ last.val = SubSeq(Bytes(last.pre), 1, Sizeof(last.ty.T))
                /\ Bytes(ctx) = SubSeq(Bytes(last.pre), Sizeof(last.ty.T) + 1, last.pre.len)

\* A float64 NaN was read into a destination that held +Inf.
C13_Witness ==
    /\ Unpoisoned("Number")
    /\ IsDeserializer(last.pre)
    /\ last.ty.T = "float64"
    /\ last.arg = Float64Inf
    /\ last.val = Float64NaN
    /\ last.ret = NoErr

\* C14: Error() and Bytes() are pure queries: in every state, poisoned or not,
\* of a serializer or a deserializer, a call changes neither the buffer nor
\* the stored error, Error() returns the stored error and Bytes() the buffer,
\* and a repeated Error() with no call in between returns the same value.
C14_QueriesArePure ==
    [][last'.op \in {"Error", "Bytes()"} =>
           /\ ctx' = ctx
           /\ crashed' = crashed
           /\ last'.op = "Error" => last'.ret = ctx.err
           /\ last'.op = "Bytes()" => last'.val = Bytes(ctx)
           /\ (last.op = "Error" /\ last'.op = "Error") => last'.ret = last.ret]_vars

\* Error() was called on a poisoned deserializer with bytes left in its
\* buffer.
C14_Witness ==
    /\ last.op = "Error"
    /\ last.ret # NoErr
    /\ IsDeserializer(ctx)
    /\ ctx.len > 0
    /\ steps = MaxSteps

(***************************************************************************)
(* Sequences and maps that fail part way                                   *)
(***************************************************************************)

\* The deserializer left after the 8-byte count at the head of c is read.
AfterCount(c) == NewDeserializer(SubSeq(Bytes(c), Sizeof("int") + 1, c.len))

\* Element j of a destination grown to hold the count: the old element where
\* there is one, the zero value beyond.
Grown(slice, f, j) == IF j <= Len(slice) THEN slice[j] ELSE Zero(f)

RECURSIVE ElementCalls(_, _, _, _, _)
\* The results of f called on the positions j..n one after the other, each
\* on the context the call before left, failed or not.
ElementCalls(c, slice, f, j, n) ==
    IF j > n THEN <<>>
    ELSE With(Codec(c, f, Grown(slice, f, j), 0),
              LAMBDA e : <<e>> \o ElementCalls(e.ctx, slice, f, j + 1, n))

Least(S) == CHOOSE x \in S : \A y \in S : x <= y

\* f consumes a byte or more when it succeeds, so among min(count, bytes + 1)
\* calls is the first that fails, if any does.
CallsToTry(c) ==
    IF CountAt(c) <= AfterCount(c).len THEN CountAt(c) ELSE AfterCount(c).len + 1

\* C15: Slice on a deserializer with the count C and a destination of the
\* length L calls the element codec on the positions in order; when it first
\* fails at position i, Slice returns that error without a panic, the context
\* is as that call left it (no later position was decoded), the positions
\* before i hold the decoded values and the positions after i their prior
\* values: the old element below L, the zero value from L on.
C15_SliceStopsAtFirstError ==
    (/\ Unpoisoned("Slice")
     /\ IsDeserializer(last.pre)
     /\ last.pre.len >= Sizeof("int")
     /\ CountAt(last.pre) >= 0
     /\ CountAt(last.pre) < Huge) =>
        LET f == last.ty.elem
            calls15 == ElementCalls(AfterCount(last.pre), last.arg, f, 1,
                                    CallsToTry(last.pre))
            failed == {j \in 1..Len(calls15) : calls15[j].err # NoErr}
        IN  failed # {} =>
                LET i == Least(failed)
                IN  /\ ~crashed
                    /\ last.ret = calls15[i].err
                    /\ ctx = calls15[i].ctx
                    /\ Len(last.val) = IF Len(last.arg) < CountAt(last.pre)
                                       THEN CountAt(last.pre) ELSE Len(last.arg)
                    /\ \A j \in 1..(i - 1) : last.val[j] = calls15[j].val
                    /\ \A j \in (i + 1)..Len(last.val) :
                           last.val[j] = Grown(last.arg, f, j)

\* A sequence of two capability values was read into a destination of three;
\* the first element's UnmarshalBinary failed and the second element's bytes
\* are still in the buffer.
C15_Witness ==
    /\ Unpoisoned("Slice")
    /\ IsDeserializer(last.pre)
    /\ last.ty.elem.k = "Binary"
    /\ last.pre.len >= Sizeof("int")
    /\ Len(last.arg) > CountAt(last.pre)
    /\ last.ret \notin {NoErr, errUnexpectedEnd}
    /\ ctx.len > 0
    /\ ~crashed

RECURSIVE EntriesOver(_, _, _, _)
\* The entries m overwritten and extended by the one-byte key, one-byte value
\* entries e..n of the payload, in order.
EntriesOver(m, payload, e, n) ==
    IF e > n THEN m
    ELSE EntriesOver((<<payload[2 * e - 1]>> :> <<payload[2 * e]>>) @@ m, payload, e + 1, n)

\* The whole entries of one-byte keys and values in the buffer of c after the
\* count.
WholeEntries(c) == AfterCount(c).len \div 2

\* C16: Map on a deserializer whose buffer ends before the count's entries do
\* (entry j is cut short) returns the unexpected-end error without a panic
\* and leaves the map holding the prior entries overwritten and extended by
\* the entries 0..j-1: entry j, whose key may have been decoded, is not
\* inserted; a nil destination map has become a non-nil map.
C16_MapStopsAtFirstError ==
    (/\ Unpoisoned("Map")
     /\ IsDeserializer(last.pre)
     /\ last.pre.len >= Sizeof("int")
     /\ CountAt(last.pre) > WholeEntries(last.pre)) =>
        /\ ~crashed
        /\ last.ret = errUnexpectedEnd
        /\ ctx.err = errUnexpectedEnd
        /\ ~last.val.isnil
        /\ last.val.m = EntriesOver(last.arg.m, Bytes(AfterCount(last.pre)), 1,
                                    WholeEntries(last.pre))

\* A nil map was the destination; one entry was inserted before the buffer
\* ended in the middle of the next.
C16_Witness ==
    /\ Unpoisoned("Map")
    /\ IsDeserializer(last.pre)
    /\ last.arg = NilMap
    /\ last.ret = errUnexpectedEnd
    /\ ~last.val.isnil
    /\ Cardinality(DOMAIN last.val.m) = 1
    /\ AfterCount(last.pre).len = 3

(***************************************************************************)
(* Bytes and Slice                                                         *)
(***************************************************************************)

\* The []byte b as a []uint8 for Slice: one one-byte word per element.
AsElements(b) == [j \in 1..b.len |-> <<b.back[j]>>]

\* C17: Bytes behaves as Slice with the one-byte Number codec does: called on
\* the same context with the same destination, the two leave the same buffer
\* and the same stored error, return the same error, and leave a destination
\* of the same length and contents, for every buffer and every prior
\* destination.
C17_BytesAsSlice ==
    last.op = "Bytes" =>
        LET s == Slice(last.pre, AsElements(last.arg), U8, 0)
        IN  /\ s.panic = crashed
            /\ Bytes(s.ctx) = Bytes(ctx)
            /\ s.ctx.err = ctx.err
            /\ s.err = last.ret
            /\ s.val = AsElements(last.val)

(***************************************************************************)
(* The buffer over a run of calls                                          *)
(***************************************************************************)

\* s is the end of t.
IsSuffix(s, t) == Len(s) <= Len(t) /\ s = SubSeq(t, Len(t) - Len(s) + 1, Len(t))

\* s is the beginning of t.
IsPrefix(s, t) == Len(s) <= Len(t) /\ s = SubSeq(t, 1, Len(s))

\* C18: every step of a deserializer leaves a buffer that is the end of the
\* buffer before the step, so that the remaining buffer is always the end of
\* the input NewDeserializer was given and never grows; a Raw(n) that
\* succeeds shortens it by exactly n bytes, a Raw that fails by none.
C18_DecodeCursor ==
    [][IsDeserializer(ctx) =>
           /\ IsSuffix(Bytes(ctx'), Bytes(ctx))
           /\ (last'.op = "Raw" /\ ~crashed') =>
                  Len(Bytes(ctx')) =
                      Len(Bytes(ctx)) - (IF last'.ret = NoErr THEN last'.arg ELSE 0)]_vars

\* After an earlier call, Raw asked an unpoisoned deserializer for more bytes
\* than were left and failed; the bytes that were left are still there.
C18_Witness ==
    /\ Unpoisoned("Raw")
    /\ IsDeserializer(last.pre)
    /\ last.ret = errUnexpectedEnd
    /\ steps = MaxSteps
    /\ ctx.len > 0
    /\ Bytes(ctx) = Bytes(last.pre)

\* C19: every step of a serializer leaves a buffer that begins with the
\* buffer before the step, so that the output after a call is the beginning
\* of the output after every later call; Raw(n) with n >= 0 on an unpoisoned
\* serializer succeeds, lengthens the buffer by exactly n and returns the
\* window of the n new last positions, the bytes before them unchanged also
\* when the buffer is reallocated.
C19_AppendOnly ==
    [][IsSerializer(ctx) =>
           /\ IsPrefix(Bytes(ctx), Bytes(ctx'))
           /\ (last'.op = "Raw" /\ ctx.err = NoErr /\ last'.arg >= 0) =>
                  /\ ~crashed'
                  /\ last'.ret = NoErr
                  /\ ctx'.len = ctx.len + last'.arg
                  /\ last'.win = <<ctx.len, last'.arg>>]_vars

\* Raw on a serializer that held bytes already had to reallocate.
C19_Witness ==
    /\ Unpoisoned("Raw")
    /\ IsSerializer(last.pre)
    /\ last.pre.len > 0
    /\ last.arg > 0
    /\ last.pre.len + last.arg > Cap(last.pre)
    /\ last.ret = NoErr
    /\ ctx.len = last.pre.len + last.arg

\* The call in last is one of those an encoding pass cannot fail on: a codec
\* call other than a Raw with a negative size and a Binary whose MarshalBinary
\* fails.
PlainCodecCall(call) ==
    /\ call.op \in CodecOps
    /\ call.op = "Raw" => call.arg >= 0
    /\ call.op = "Binary" => MarshalBinary(call.arg).err = NoErr

\* C20: a serializer is poisoned only by an Abort of the caller or by a Binary
\* whose MarshalBinary fails: every other codec call on an unpoisoned
\* serializer (Raw with n >= 0, Number, String, Bytes, Slice, Map, Binary)
\* returns nil without a panic and leaves Error() nil.
C20_EncodeCannotFail ==
    [][(IsSerializer(ctx) /\ ctx.err = NoErr) =>
           /\ ctx'.err # NoErr =>
                  \/ last'.op = "Abort"
                  \/ last'.op = "Binary" /\ MarshalBinary(last'.arg).err # NoErr
           /\ PlainCodecCall(last') =>
                  /\ ~crashed'
                  /\ last'.ret = NoErr
                  /\ ctx'.err = NoErr]_vars

\* Two codec calls, the second a Binary that had to reallocate the fixed
\* backing array, have left the serializer unpoisoned.
C20_Witness ==
    /\ Unpoisoned("Binary")
    /\ IsSerializer(last.pre)
    /\ steps = MaxSteps
    /\ Cap(last.pre) > 0
    /\ ctx.len > Cap(last.pre)
    /\ last.ret = NoErr
    /\ ctx.err = NoErr
    /\ firstFail = NoErr

(***************************************************************************)
(* Two goroutines on one context                                           *)
(*                                                                         *)
(* Each goroutine calls Raw(n) and then Abort(e) on the same context with  *)
(* no synchronisation.  A step is one read or one write of a field of the  *)
(* context, as the statements of Raw and Abort make them; a store of the   *)
(* slice header ctx.bytes is two writes (the pointer with its capacity,    *)
(* and the length) in either order.  The array ctx.bytes points to is      *)
(* named by threads.ptr: 0 for the array of the constructor, t for the     *)
(* array goroutine t makes.                                                *)
(***************************************************************************)

Threads == {1, 2}

Other(t) == CHOOSE u \in Threads : u # t

\* The calls each goroutine makes, in order.
RaceCalls == <<"Raw", "Abort">>

RaceSizes == {1, 3}

RaceContexts ==
    {NewSerializer, NewSerializerWithCapacity(4), NewDeserializer(<<1, 2, 3, 4>>)}

\* The error goroutine t aborts with.
RaceErr(t) == IF t = 1 THEN "e1" ELSE "e2"

NoHdr == [ptr |-> 0, back |-> <<>>, len |-> 0]

NoWin == [has |-> FALSE, ptr |-> 0, off |-> 0, n |-> 0]

\* The locals of a goroutine before its first call: k is the call it is at, pc
\* its position in the call ("idle": between calls), n the size it asks Raw
\* for, e the error it aborts with, err the parameter of the Abort it is in,
\* a, b, c the lengths and the capacity it has read, h the slice header it has
\* read, pend the slice header it is storing, win the window Raw returned.
Idle(n, e) ==
    [k |-> 1, pc |-> "idle", n |-> n, e |-> e, err |-> NoErr, a |-> 0, b |-> 0, c |-> 0,
     h |-> NoHdr, pend |-> NoHdr, wrote |-> "none", next |-> "idle", inRaw |-> FALSE,
     win |-> NoWin, rawRet |-> "none", abortRet |-> "none"]

RaceInit ==
    /\ ctx \in RaceContexts
    /\ last = NoCall
    /\ firstFail = NoErr
    /\ crashed = FALSE
    /\ steps = 0
    /\ pass = NoPass
    /\ \E n1 \in RaceSizes, n2 \in RaceSizes :
           threads = [phase |-> "race", ptr |-> 0, len0 |-> ctx.len, set |-> NoErr,
                      interleaved |-> FALSE, unsafe |-> FALSE,
                      loc |-> [t \in Threads |->
                                  Idle(IF t = 1 THEN n1 ELSE n2, RaceErr(t))]]

\* The call goroutine t is at.
CallOf(t) ==
    IF threads.loc[t].k <= Len(RaceCalls) THEN RaceCalls[threads.loc[t].k] ELSE "done"

\* The call returns.
Finish(loc) == [loc EXCEPT !.k = @ + 1, !.pc = "idle", !.inRaw = FALSE]

\* A step of goroutine t: the context, the array pointed to and the locals
\* after it, whether it panicked, whether it read outside an array.  The step
\* is interleaved when the other goroutine is in the middle of a call;
\* threads.set keeps the first error stored in ctx.err.
RaceStep(t, c2, ptr2, loc2, panic, outside) ==
    /\ ctx' = c2
    /\ crashed' = panic
    /\ threads' = [threads EXCEPT
                      !.ptr = ptr2,
                      !.loc[t] = loc2,
                      !.unsafe = @ \/ outside,
                      !.interleaved = @ \/ threads.loc[Other(t)].pc # "idle",
                      !.set = IF @ = NoErr THEN c2.err ELSE @]
    /\ UNCHANGED <<last, firstFail, steps, pass>>

\* A step that reads only.
RaceRead(t, loc2) == RaceStep(t, ctx, threads.ptr, loc2, FALSE, FALSE)

\* A step that panics.
RacePanic(t) == RaceStep(t, ctx, threads.ptr, threads.loc[t], TRUE, FALSE)

\* if ctx.err != nil { return nil, ctx.err }
RawBegin ==
    \E t \in Threads :
        /\ ~crashed
        /\ threads.loc[t].pc = "idle"
        /\ CallOf(t) = "Raw"
        /\ IF ctx.err # NoErr
           THEN RaceRead(t, Finish([threads.loc[t] EXCEPT !.rawRet = ctx.err]))
           ELSE RaceRead(t, [threads.loc[t] EXCEPT
                                !.pc = IF IsSerializer(ctx) THEN "len1" ELSE "dlen"])

\* A len(ctx.bytes) of the serializing branch that is followed by another
\* read.
RawReadLen ==
    \E t \in Threads :
        /\ ~crashed
        /\ threads.loc[t].pc \in {"len1", "len2", "len4"}
        /\ RaceRead(t, [threads.loc[t] EXCEPT
                           !.a = ctx.len,
                           !.pc = CASE @ = "len1" -> "cap1"
                                    [] @ = "len2" -> "len3"
                                    [] @ = "len4" -> "len5"])

\* n+len(ctx.bytes) > cap(ctx.bytes)
GrowNeeded(n, a, c) == n + a > c

RawReadCap ==
    \E t \in Threads :
        /\ ~crashed
        /\ threads.loc[t].pc = "cap1"
        /\ RaceRead(t, [threads.loc[t] EXCEPT
                           !.c = Cap(ctx),
                           !.pc = IF GrowNeeded(threads.loc[t].n, threads.loc[t].a, Cap(ctx))
                                  THEN "len2" ELSE "hdr1"])

\* newCtxBytes := make([]byte, len(ctx.bytes), n+len(ctx.bytes)), the second
\* len(ctx.bytes) read here; make panics when the length exceeds the capacity.
RawMake ==
    \E t \in Threads :
        /\ ~crashed
        /\ threads.loc[t].pc = "len3"
        /\ IF threads.loc[t].a > threads.loc[t].n + ctx.len
           THEN RacePanic(t)
           ELSE RaceRead(t, [threads.loc[t] EXCEPT
                                !.b = ctx.len,
                                !.pend = [ptr |-> t,
                                          back |-> Zeros(threads.loc[t].n + ctx.len),
                                          len |-> threads.loc[t].a],
                                !.pc = "copy"])

\* copy(newCtxBytes, ctx.bytes): min(len(newCtxBytes), len(ctx.bytes)) bytes;
\* a length beyond the array read makes it a read outside the array.
RawCopy ==
    \E t \in Threads :
        /\ ~crashed
        /\ threads.loc[t].pc = "copy"
        /\ LET m == IF threads.loc[t].pend.len < ctx.len THEN threads.loc[t].pend.len
                    ELSE ctx.len
           IN  RaceStep(t, ctx, threads.ptr,
                        [threads.loc[t] EXCEPT
                            !.pend.back = [j \in 1..Len(@) |->
                                              IF j <= m /\ j <= Len(ctx.back)
                                              THEN ctx.back[j] ELSE @[j]],
                            !.pc = "store", !.next = "hdr1"],
                        FALSE, m > Len(ctx.back))

\* ctx.bytes = pend: one of the two writes of the header.
RawStoreWord ==
    \E t \in Threads, w \in {"ptr", "len"} :
        /\ ~crashed
        /\ threads.loc[t].pc = "store"
        /\ w # threads.loc[t].wrote
        /\ LET loc == threads.loc[t]
               c2 == IF w = "ptr" THEN [ctx EXCEPT !.back = loc.pend.back]
                     ELSE [ctx EXCEPT !.len = loc.pend.len]
               ptr2 == IF w = "ptr" THEN loc.pend.ptr ELSE threads.ptr
           IN  IF loc.wrote = "none"
               THEN RaceStep(t, c2, ptr2, [loc EXCEPT !.wrote = w], FALSE, FALSE)
               ELSE IF loc.next = "return"
               THEN RaceStep(t, c2, ptr2,
                             Finish([loc EXCEPT !.wrote = "none", !.rawRet = NoErr]),
                             FALSE, FALSE)
               ELSE RaceStep(t, c2, ptr2, [loc EXCEPT !.wrote = "none", !.pc = loc.next],
                             FALSE, FALSE)

\* The ctx.bytes that a slice expression slices: its pointer and capacity.
RawReadHdr ==
    \E t \in Threads :
        /\ ~crashed
        /\ threads.loc[t].pc \in {"hdr1", "hdr2", "dhdr2"}
        /\ RaceRead(t, [threads.loc[t] EXCEPT
                           !.h = [ptr |-> threads.ptr, back |-> ctx.back, len |-> 0],
                           !.pc = CASE @ = "hdr1" -> "len4"
                                    [] @ = "hdr2" -> "len6"
                                    [] @ = "dhdr2" -> "dlen2"])

\* A window that starts at the head of the array.
WindowFromStart(h, a, n) == [has |-> TRUE, ptr |-> h.ptr, off |-> 0, n |-> n]

\* h[a : a+n] as the positions it covers: of the array h.ptr, n positions
\* from the offset a on.
Window(h, a, n) == [has |-> TRUE, ptr |-> h.ptr, off |-> a, n |-> n]

\* bytes = ctx.bytes[len(ctx.bytes) : n+len(ctx.bytes)], the second
\* len(ctx.bytes) read here; the slice expression panics out of range.
RawWindow ==
    \E t \in Threads :
        /\ ~crashed
        /\ threads.loc[t].pc = "len5"
        /\ LET loc == threads.loc[t]
               hi == loc.n + ctx.len
           IN  IF loc.a > hi \/ hi > Len(loc.h.back)
               THEN RacePanic(t)
               ELSE RaceRead(t, [loc EXCEPT !.b = ctx.len,
                                            !.win = Window(loc.h, loc.a, hi - loc.a),
                                            !.pc = "hdr2"])

\* ctx.bytes[:n+len(ctx.bytes)], to be stored in ctx.bytes.
RawExtend ==
    \E t \in Threads :
        /\ ~crashed
        /\ threads.loc[t].pc = "len6"
        /\ LET loc == threads.loc[t]
               hi == loc.n + ctx.len
           IN  IF hi > Len(loc.h.back)
               THEN RacePanic(t)
               ELSE RaceRead(t, [loc EXCEPT
                                    !.b = ctx.len,
                                    !.pend = [ptr |-> loc.h.ptr, back |-> loc.h.back,
                                              len |-> hi],
                                    !.pc = "store", !.next = "return"])

\* if n > len(ctx.bytes) { return nil, ctx.Abort(errUnexpectedEnd) }
RawDeTest ==
    \E t \in Threads :
        /\ ~crashed
        /\ threads.loc[t].pc = "dlen"
        /\ RaceRead(t, IF threads.loc[t].n > ctx.len
                       THEN [threads.loc[t] EXCEPT !.a = ctx.len, !.err = errUnexpectedEnd,
                                                   !.inRaw = TRUE, !.pc = "a.read"]
                       ELSE [threads.loc[t] EXCEPT !.a = ctx.len, !.pc = "dhdr1"])

\* bytes = ctx.bytes[:n]; the window's offset is counted from the head of the
\* input.
RawDeWindow ==
    \E t \in Threads :
        /\ ~crashed
        /\ threads.loc[t].pc = "dhdr1"
        /\ IF threads.loc[t].n > Len(ctx.back)
           THEN RacePanic(t)
           ELSE RaceRead(t, [threads.loc[t] EXCEPT
                                !.win = Window([ptr |-> threads.ptr],
                                               threads.len0 - Len(ctx.back),
                                               threads.loc[t].n),
                                !.pc = "dhdr2"])

\* ctx.bytes[n:], to be stored in ctx.bytes.
RawDeAdvance ==
    \E t \in Threads :
        /\ ~crashed
        /\ threads.loc[t].pc = "dlen2"
        /\ LET loc == threads.loc[t]
           IN  IF loc.n > ctx.len \/ ctx.len > Len(loc.h.back)
               THEN RacePanic(t)
               ELSE RaceRead(t, [loc EXCEPT
                                    !.b = ctx.len,
                                    !.pend = [ptr |-> loc.h.ptr,
                                              back |-> SubSeq(loc.h.back, loc.n + 1,
                                                              Len(loc.h.back)),
                                              len |-> ctx.len - loc.n],
                                    !.pc = "store", !.next = "return"])

\* if c.err == nil, in the caller's Abort(e) or in Raw's Abort.
AbortRead ==
    \E t \in Threads :
        /\ ~crashed
        /\ \/ threads.loc[t].pc = "idle" /\ CallOf(t) = "Abort"
           \/ threads.loc[t].pc = "a.read"
        /\ RaceRead(t, [threads.loc[t] EXCEPT
                           !.err = IF threads.loc[t].pc = "idle" THEN threads.loc[t].e ELSE @,
                           !.pc = IF ctx.err = NoErr THEN "a.write" ELSE "a.ret"])

\* c.err = err
AbortWrite ==
    \E t \in Threads :
        /\ ~crashed
        /\ threads.loc[t].pc = "a.write"
        /\ RaceStep(t, [ctx EXCEPT !.err = threads.loc[t].err], threads.ptr,
                    [threads.loc[t] EXCEPT !.pc = "a.ret"], FALSE, FALSE)

\* return c.err
AbortReturn ==
    \E t \in Threads :
        /\ ~crashed
        /\ threads.loc[t].pc = "a.ret"
        /\ RaceRead(t, IF threads.loc[t].inRaw
                       THEN Finish([threads.loc[t] EXCEPT !.rawRet = ctx.err])
                       ELSE Finish([threads.loc[t] EXCEPT !.abortRet = ctx.err]))

RaceNext ==
    \/ RawBegin
    \/ RawReadLen
    \/ RawReadCap
    \/ RawMake
    \/ RawCopy
    \/ RawStoreWord
    \/ RawReadHdr
    \/ RawWindow
    \/ RawExtend
    \/ RawDeTest
    \/ RawDeWindow
    \/ RawDeAdvance
    \/ AbortRead
    \/ AbortWrite
    \/ AbortReturn

SpecRace == RaceInit /\ [][RaceNext]_vars

\* Both goroutines' Raw calls have returned windows.
RawsReturned ==
    \A t \in Threads : threads.loc[t].k > 1 /\ threads.loc[t].rawRet = NoErr

\* The two windows share a position of one array.
WindowsOverlap ==
    LET w1 == threads.loc[1].win
        w2 == threads.loc[2].win
    IN  /\ w1.has /\ w2.has
        /\ w1.ptr = w2.ptr
        /\ w1.off < w2.off + w2.n
        /\ w2.off < w1.off + w1.n

\* Both Raw calls have succeeded and the buffer has not moved by the sum of
\* the sizes they asked for: a serializer's is shorter than the sum, a
\* deserializer's longer than the input without the sum.
LengthShort ==
    /\ RawsReturned
    /\ \A t \in Threads : threads.loc[t].pc # "store"
    /\ IF IsSerializer(ctx)
       THEN ctx.len < threads.len0 + threads.loc[1].n + threads.loc[2].n
       ELSE ctx.len > threads.len0 - threads.loc[1].n - threads.loc[2].n

\* The error stored first is no longer the stored error.
ErrorOverwritten == threads.set # NoErr /\ ctx.err # threads.set

\* C21: a context is not safe for concurrent use.  The states the witness
\* below reaches (two windows of Raw that overlap, a buffer shorter than the
\* sum of the sizes asked for, a stored error overwritten by a second Abort)
\* are states of two unsynchronised goroutines, and they come from the
\* interleaving of the steps of their calls only: when no step of one
\* goroutine falls inside a call of the other, the windows are disjoint, the
\* buffer moves by the sum of the sizes, the first error stays, and no call
\* panics or reads outside an array.
C21_RacesNeedInterleaving ==
    threads.phase = "race" =>
        ((crashed \/ threads.unsafe \/ WindowsOverlap \/ LengthShort \/ ErrorOverwritten)
            => threads.interleaved)

\* Both goroutines have finished; on the serializer their Raw windows overlap
\* and the buffer is shorter than the sum of the two sizes, and the error
\* that Abort stored first has been overwritten by the other Abort.
C21_Witness ==
    /\ threads.phase = "race"
    /\ \A t \in Threads : CallOf(t) = "done"
    /\ ~crashed
    /\ ~threads.unsafe
    /\ IsSerializer(ctx)
    /\ WindowsOverlap
    /\ LengthShort
    /\ ErrorOverwritten
    /\ threads.loc[1].abortRet # threads.loc[2].abortRet

====
